---- MODULE Spec2Model ----
(***************************************************************************)
(* Model of co_routines.cpp: a dispatch loop (main) that drives two C++20   *)
(* coroutines, acclimate and charger, over a message {temperature,         *)
(* batteryCharge, state}.                                                  *)
(*                                                                         *)
(* Numbers.  temperature and batteryCharge are C++ doubles.  Every value   *)
(* the program computes is an integer start value (rand() % 55,            *)
(* rand() % 100) plus or minus multiples of 0.1, 0.8 and 0.01, so its      *)
(* decimal value is a whole number of hundredths: field v holds it in      *)
(* hundredths.  0.1, 0.8, 0.01 and 94.9 are not representable in binary,    *)
(* so the double is only within rounding error of v/100 (the program       *)
(* prints "Finish charging at 95.0" where decimal arithmetic stops at      *)
(* 94.9).  The error is far below 0.01, so it changes the outcome of a     *)
(* comparison only when v equals the literal compared against.  Field r    *)
(* records on which side of such a literal the double lies: -1 below,      *)
(* +1 above, 0 when the value is exact (drawn, never computed) or when v   *)
(* is not a literal its field is compared against.  A computed value that  *)
(* lands on a literal takes either side, nondeterministically.             *)
(***************************************************************************)
EXTENDS Integers, FiniteSets, Sequences, TLC

VARIABLES
    info,      \* main's message info (line 91)
    handle,    \* the coroutine frame handle/promise point to (lines 96-97)
    step,      \* history: the case of the switch executed last
    from,      \* history: suspension point handle was resumed from in the last step
    produced,  \* history: message most recently passed to yield_value/return_value
    drawn,     \* history: the pair init_values drew last
    charged    \* history: promise2->info of the charger run in the last step

vars == <<info, handle, step, from, produced, drawn, charged>>

----------------------------------------------------------------------------
\* Bounds of the model

\* main's init_values draws temperatures t with t % TempStride = 15 % TempStride
TempStride == 5
\* main's init_values draws charges c with c % ChargeStride = 10 % ChargeStride
ChargeStride == 20
\* the charger is tried alone on charges b/10 with b % ChargerStride = 948 % ChargerStride
ChargerStride == 12
\* the charger's loop is followed for at most 2^ChargerPasses passes
ChargerPasses == 10

----------------------------------------------------------------------------
\* Program constants, in hundredths

Scale == 100
TempMod == 55
ChargeMod == 100
TempLow == 18 * Scale
TempHigh == 20 * Scale
ChargeLow == 20 * Scale
ChargeFull == 9490
TempStep == 10
DrainStep == 80
ChargeStep == 10
DriftStep == 1

State == {"start", "cooling", "heating", "charging", "finish", "standby"}

\* literals each field is compared against
TempLits == {TempLow, TempHigh}
ChargeLits == {ChargeLow, ChargeFull}

----------------------------------------------------------------------------
\* doubles

Exact(v) == [v |-> v, r |-> 0]
Rounded(v, lits) ==
    IF v \in lits THEN {[v |-> v, r |-> -1], [v |-> v, r |-> 1]}
    ELSE {[v |-> v, r |-> 0]}

GT(x, lit) == x.v > lit \/ (x.v = lit /\ x.r > 0)
LT(x, lit) == x.v < lit \/ (x.v = lit /\ x.r < 0)
LE(x, lit) == ~GT(x, lit)
GE(x, lit) == ~LT(x, lit)

message(t, b, s) == [temperature |-> t, batteryCharge |-> b, state |-> s]

----------------------------------------------------------------------------
\* return_object::promise_type and the coroutine frame

NoYields == [cooling |-> 0, heating |-> 0, charging |-> 0]
NoMessage == message(Exact(0), Exact(0), "standby")

NoDraw == [temperature |-> Exact(0), batteryCharge |-> Exact(0)]

\* handle before main assigns it (line 96)
NoHandle ==
    [co |-> "none", pc |-> "none", info |-> NoMessage, promise |-> NoMessage,
     arg |-> NoMessage, yields |-> NoYields, k |-> 0]

\* a frame at its first statement: initial_suspend is suspend_never
Frame(co, arg) ==
    [co |-> co, pc |-> "body", info |-> arg, promise |-> NoMessage,
     arg |-> arg, yields |-> NoYields, k |-> 0]

\* yield_value without its assignment to the promise's info
yield_value_no_store(f, value, pc) ==
    [f EXCEPT !.info = value, !.pc = pc, !.yields[value.state] = @ + 1]

\* co_yield info at the suspension point pc: yield_value stores the message
yield_value(f, value, pc) ==
    [f EXCEPT !.info = value, !.promise = value, !.pc = pc,
              !.yields[value.state] = @ + 1]

\* co_return info: return_value stores the message, then final_suspend
return_value(f, value) ==
    [f EXCEPT !.promise = value, !.pc = "final_suspend"]

\* control reaches the closing brace of the body: final_suspend
final_suspend(f) == [f EXCEPT !.pc = "final_suspend"]

----------------------------------------------------------------------------
\* acclimate

CoolingStep(i) ==
    { message(t, b, "cooling") :
        t \in Rounded(i.temperature.v - TempStep, TempLits),
        b \in Rounded(i.batteryCharge.v - DrainStep, ChargeLits) }

\* the heating body with the cooling body's subtraction
HeatingStep_subtract(i) ==
    { message(t, b, "heating") :
        t \in Rounded(i.temperature.v - TempStep, TempLits),
        b \in Rounded(i.batteryCharge.v - DrainStep, ChargeLits) }

HeatingStep(i) ==
    { message(t, b, "heating") :
        t \in Rounded(i.temperature.v + TempStep, TempLits),
        b \in Rounded(i.batteryCharge.v - DrainStep, ChargeLits) }

\* line 53 onwards
ChargingYield(f) ==
    IF LE(f.info.temperature, TempHigh) \/ GE(f.info.temperature, TempLow)
    THEN {yield_value(f, [f.info EXCEPT !.state = "charging"], "yield_charging")}
    ELSE {final_suspend(f)}

\* the heating loop with 17 for 18
HeatingLoop_low_threshold(f) ==
    IF LT(f.info.temperature, TempLow - Scale) /\ GT(f.info.batteryCharge, ChargeLow)
    THEN {yield_value(f, i, "yield_heating") : i \in HeatingStep(f.info)}
    ELSE ChargingYield(f)

\* the heating loop with its temperature test turned round
HeatingLoop_inverted(f) ==
    IF GT(f.info.temperature, TempLow) /\ GT(f.info.batteryCharge, ChargeLow)
    THEN {yield_value(f, i, "yield_heating") : i \in HeatingStep(f.info)}
    ELSE ChargingYield(f)

\* the test of the while at line 47 onwards
HeatingLoop(f) ==
    IF LT(f.info.temperature, TempLow) /\ GT(f.info.batteryCharge, ChargeLow)
    THEN {yield_value(f, i, "yield_heating") : i \in HeatingStep(f.info)}
    ELSE ChargingYield(f)

\* the cooling loop testing the temperature alone
CoolingLoop_temperature_only(f) ==
    IF GT(f.info.temperature, TempHigh)
    THEN {yield_value(f, i, "yield_cooling") : i \in CoolingStep(f.info)}
    ELSE HeatingLoop(f)

\* the cooling loop testing the charge alone
CoolingLoop_charge_only(f) ==
    IF GT(f.info.batteryCharge, ChargeLow)
    THEN {yield_value(f, i, "yield_cooling") : i \in CoolingStep(f.info)}
    ELSE HeatingLoop(f)

\* the test of the while at line 41 onwards
CoolingLoop(f) ==
    IF GT(f.info.temperature, TempHigh) /\ GT(f.info.batteryCharge, ChargeLow)
    THEN {yield_value(f, i, "yield_cooling") : i \in CoolingStep(f.info)}
    ELSE HeatingLoop(f)

\* acclimate(info): the set of frames the call can leave suspended at its first yield
acclimate(i) ==
    IF GT(i.batteryCharge, ChargeLow)
    THEN CoolingLoop(Frame("acclimate", i))
    ELSE {yield_value(Frame("acclimate", i), [i EXCEPT !.state = "charging"], "yield_else")}

\* handle(): resume the frame at its suspension point.  After the charging
\* yields control runs off the end of the body: promise_type declares
\* return_value and no return_void, and the compiled coroutine proceeds to
\* final_suspend with the promise untouched.  Resuming a frame at its final
\* suspend point, or a handle never assigned, is undefined: pc "ub".
Resume(f) ==
    CASE f.pc = "yield_cooling" -> CoolingLoop(f)
      [] f.pc = "yield_heating" -> HeatingLoop(f)
      [] f.pc \in {"yield_charging", "yield_else"} -> {final_suspend(f)}
      [] OTHER -> {[f EXCEPT !.pc = "ub"]}

----------------------------------------------------------------------------
\* charger

ChargerStep(i) ==
    { message(t, b, i.state) :
        t \in Rounded(i.temperature.v + DriftStep, TempLits),
        b \in Rounded(i.batteryCharge.v + ChargeStep, ChargeLits) }

\* one pass through the while at line 64: its test, then its body or co_return
ChargerLoop(f) ==
    IF f.pc = "final_suspend" THEN {f}
    ELSE IF LT(f.info.batteryCharge, ChargeFull)
    THEN {[f EXCEPT !.info = i, !.k = @ + 1] : i \in ChargerStep(f.info)}
    ELSE {return_value(f, f.info)}

\* 2^n passes through the loop from frame f, stopping once it has returned
RECURSIVE ChargerRun(_, _)
ChargerRun(f, n) ==
    IF f.pc = "final_suspend" THEN {f}
    ELSE IF n = 0 THEN ChargerLoop(f)
    ELSE UNION {ChargerRun(g, n - 1) : g \in ChargerRun(f, n - 1)}

\* charger(info): the set of frames the call can leave at final suspend
charger(i) == ChargerRun(Frame("charger", i), ChargerPasses)

----------------------------------------------------------------------------
\* init_values

\* init_values classifying by temperature alone where the code also tests the charge
init_values_temperature_only(T, C) ==
    LET t == Exact(T * Scale)
        b == Exact(C * Scale)
    IN  IF LT(t, TempLow) THEN message(t, b, "heating")
        ELSE IF GT(t, TempHigh) THEN message(t, b, "cooling")
        ELSE IF GT(b, ChargeLow) THEN message(t, b, "finish")
        ELSE message(t, b, "charging")

\* init_values with the band's lower edge classified as heating
init_values_inclusive(T, C) ==
    LET t == Exact(T * Scale)
        b == Exact(C * Scale)
    IN  IF LE(t, TempLow) /\ GT(b, ChargeLow) THEN message(t, b, "heating")
        ELSE IF GT(t, TempHigh) /\ GT(b, ChargeLow) THEN message(t, b, "cooling")
        ELSE IF GT(b, ChargeLow) THEN message(t, b, "finish")
        ELSE message(t, b, "charging")

\* init_values with the two states of its last else exchanged
init_values_exchanged(T, C) ==
    LET t == Exact(T * Scale)
        b == Exact(C * Scale)
    IN  IF LT(t, TempLow) /\ GT(b, ChargeLow) THEN message(t, b, "heating")
        ELSE IF GT(t, TempHigh) /\ GT(b, ChargeLow) THEN message(t, b, "cooling")
        ELSE IF GT(b, ChargeLow) THEN message(t, b, "charging")
        ELSE message(t, b, "finish")

init_values(T, C) ==
    LET t == Exact(T * Scale)
        b == Exact(C * Scale)
    IN  IF LT(t, TempLow) /\ GT(b, ChargeLow) THEN message(t, b, "heating")
        ELSE IF GT(t, TempHigh) /\ GT(b, ChargeLow) THEN message(t, b, "cooling")
        ELSE IF GT(b, ChargeLow) THEN message(t, b, "finish")
        ELSE message(t, b, "charging")

AllTemps == 0 .. (TempMod - 1)
AllCharges == 0 .. (ChargeMod - 1)
Temps == {t \in AllTemps : t % TempStride = 15 % TempStride}
Charges == {c \in AllCharges : c % ChargeStride = 10 % ChargeStride}

----------------------------------------------------------------------------
\* main

\* info.temperature and info.batteryCharge are not initialised at line 91
Indeterminate == {Exact(0), Exact(TempHigh), Exact(-Scale)}

Init ==
    /\ info \in {message(t, b, "start") : t \in Indeterminate, b \in Indeterminate}
    /\ handle = NoHandle
    /\ step = "none"
    /\ from = "noresume"
    /\ produced = NoMessage
    /\ drawn = NoDraw
    /\ charged = NoMessage

\* the start case classifying and keeping the temperature and charge info holds
Start_keep_values(temps, charges) ==
    /\ info.state = "start"
    /\ \E T \in temps, C \in charges :
         LET m == init_values(T, C) IN
         \E f \in acclimate(m) :
            /\ info' = [m EXCEPT !.temperature = info.temperature,
                                 !.batteryCharge = info.batteryCharge]
            /\ handle' = f
            /\ produced' = f.promise
            /\ drawn' = [temperature |-> m.temperature, batteryCharge |-> m.batteryCharge]
    /\ step' = "start"
    /\ from' = "noresume"
    /\ charged' = NoMessage

\* case start, with init_values drawing from temps x charges
Start(temps, charges) ==
    /\ info.state = "start"
    /\ \E T \in temps, C \in charges :
         LET m == init_values(T, C) IN
         \E f \in acclimate(m) :
            /\ info' = m
            /\ handle' = f
            /\ produced' = f.promise
            /\ drawn' = [temperature |-> m.temperature, batteryCharge |-> m.batteryCharge]
    /\ step' = "start"
    /\ from' = "noresume"
    /\ charged' = NoMessage

StartCase == Start(Temps, Charges)

\* the resuming cases keeping their own state instead of the yielded one
ResumeCase_keep_state(s) ==
    /\ info.state = s
    /\ \E f \in Resume(handle) :
         /\ handle' = f
         /\ info' = [f.promise EXCEPT !.state = s]
         /\ produced' = f.promise
    /\ step' = s
    /\ from' = handle.pc
    /\ charged' = NoMessage
    /\ UNCHANGED drawn

\* case cooling and case heating have the same body
ResumeCase(s) ==
    /\ info.state = s
    /\ \E f \in Resume(handle) :
         /\ handle' = f
         /\ info' = f.promise
         /\ produced' = f.promise
    /\ step' = s
    /\ from' = handle.pc
    /\ charged' = NoMessage
    /\ UNCHANGED drawn

CoolingCase == ResumeCase("cooling")
HeatingCase == ResumeCase("heating")

\* the finish case ending the loop
FinishCase_standby ==
    /\ info.state = "finish"
    /\ info' = [info EXCEPT !.state = "standby"]
    /\ step' = "finish"
    /\ from' = "noresume"
    /\ charged' = NoMessage
    /\ UNCHANGED <<handle, produced, drawn>>

FinishCase ==
    /\ info.state = "finish"
    /\ info' = [info EXCEPT !.state = "start"]
    /\ step' = "finish"
    /\ from' = "noresume"
    /\ charged' = NoMessage
    /\ UNCHANGED <<handle, produced, drawn>>

\* the charging case choosing its branch by the temperature before the charge
ChargingCase_precharge ==
    /\ info.state = "charging"
    /\ \E c \in charger(info) :
         LET i == c.promise IN
         /\ charged' = i
         /\ IF LT(info.temperature, TempLow)
            THEN \E f \in acclimate(i) :
                    /\ handle' = f
                    /\ info' = [f.promise EXCEPT !.state = "heating"]
                    /\ produced' = f.promise
            ELSE IF GT(info.temperature, TempHigh)
            THEN \E f \in acclimate(i) :
                    /\ handle' = f
                    /\ info' = [i EXCEPT !.state = "cooling"]
                    /\ produced' = f.promise
            ELSE /\ info' = [i EXCEPT !.state = "finish"]
                 /\ produced' = i
                 /\ UNCHANGED handle
    /\ step' = "charging"
    /\ from' = "noresume"
    /\ UNCHANGED drawn

\* the charging case with the cooling branch adopting promise->info as the
\* heating branch does
ChargingCase_symmetric ==
    /\ info.state = "charging"
    /\ \E c \in charger(info) :
         LET i == c.promise IN
         /\ charged' = i
         /\ IF LT(i.temperature, TempLow)
            THEN \E f \in acclimate(i) :
                    /\ handle' = f
                    /\ info' = [f.promise EXCEPT !.state = "heating"]
                    /\ produced' = f.promise
            ELSE IF GT(i.temperature, TempHigh)
            THEN \E f \in acclimate(i) :
                    /\ handle' = f
                    /\ info' = [f.promise EXCEPT !.state = "cooling"]
                    /\ produced' = f.promise
            ELSE /\ info' = [i EXCEPT !.state = "finish"]
                 /\ produced' = i
                 /\ UNCHANGED handle
    /\ step' = "charging"
    /\ from' = "noresume"
    /\ UNCHANGED drawn

\* the charging case with its last else leaving the state as it is
ChargingCase_no_finish ==
    /\ info.state = "charging"
    /\ \E c \in charger(info) :
         LET i == c.promise IN
         /\ charged' = i
         /\ IF LT(i.temperature, TempLow)
            THEN \E f \in acclimate(i) :
                    /\ handle' = f
                    /\ info' = [f.promise EXCEPT !.state = "heating"]
                    /\ produced' = f.promise
            ELSE IF GT(i.temperature, TempHigh)
            THEN \E f \in acclimate(i) :
                    /\ handle' = f
                    /\ info' = [i EXCEPT !.state = "cooling"]
                    /\ produced' = f.promise
            ELSE /\ info' = i
                 /\ produced' = i
                 /\ UNCHANGED handle
    /\ step' = "charging"
    /\ from' = "noresume"
    /\ UNCHANGED drawn

\* handle2 and promise2 are assigned and read only inside this case (lines
\* 124-126): the charger's frame is local to the step, and charged records
\* the message read from it.
ChargingCase ==
    /\ info.state = "charging"
    /\ \E c \in charger(info) :
         LET i == c.promise IN
         /\ charged' = i
         /\ IF LT(i.temperature, TempLow)
            THEN \E f \in acclimate(i) :
                    /\ handle' = f
                    /\ info' = [f.promise EXCEPT !.state = "heating"]
                    /\ produced' = f.promise
            ELSE IF GT(i.temperature, TempHigh)
            THEN \E f \in acclimate(i) :
                    /\ handle' = f
                    /\ info' = [i EXCEPT !.state = "cooling"]
                    /\ produced' = f.promise
            ELSE /\ info' = [i EXCEPT !.state = "finish"]
                 /\ produced' = i
                 /\ UNCHANGED handle
    /\ step' = "charging"
    /\ from' = "noresume"
    /\ UNCHANGED drawn

Next == StartCase \/ CoolingCase \/ HeatingCase \/ FinishCase \/ ChargingCase

Spec == Init /\ [][Next]_vars

\* the while loop of main runs its switch again as long as state is not
\* standby: a case that can run does run
SpecLive == Spec /\ WF_vars(Next)

----------------------------------------------------------------------------
\* acclimate on its own: the start case over every pair init_values can draw,
\* then handle() until the coroutine is at its final suspend point

Suspended == {"yield_cooling", "yield_heating", "yield_charging", "yield_else"}

AcclimateStart == Start(AllTemps, AllCharges)

AcclimateResume ==
    /\ handle.pc \in Suspended
    /\ \E f \in Resume(handle) :
         /\ handle' = f
         /\ produced' = f.promise
    /\ step' = "resume"
    /\ from' = handle.pc
    /\ UNCHANGED <<info, drawn, charged>>

NextAcc == AcclimateStart \/ AcclimateResume

SpecAcc == Init /\ [][NextAcc]_vars

----------------------------------------------------------------------------
\* charger on its own: one call on a message with any state, a drawn
\* temperature and a charge that is a multiple of 0.1 in [0, 100)

ChargerCharges ==
    {b \in 0 .. (ChargeMod * 10 - 1) : b % ChargerStride = 948 % ChargerStride}

InitChg ==
    /\ info \in {message(Exact(T * Scale), Exact(b * 10), s) :
                    T \in Temps, b \in ChargerCharges, s \in State}
    /\ handle = NoHandle
    /\ step = "none"
    /\ from = "noresume"
    /\ produced = NoMessage
    /\ drawn = NoDraw
    /\ charged = NoMessage

ChargerCall ==
    /\ step = "none"
    /\ \E c \in charger(info) :
         /\ handle' = c
         /\ produced' = c.promise
         /\ charged' = c.promise
    /\ step' = "charger"
    /\ UNCHANGED <<info, from, drawn>>

NextChg == ChargerCall

SpecChg == InitChg /\ [][NextChg]_vars

----------------------------------------------------------------------------
\* Helpers of the properties

Min(a, b) == IF a <= b THEN a ELSE b
CeilDiv(a, b) == (a + b - 1) \div b
FloorDiv(a, b) == a \div b
Yields(f) == f.yields.cooling + f.yields.heating + f.yields.charging
SameReading(a, b) ==
    a.temperature = b.temperature /\ a.batteryCharge = b.batteryCharge

\* the charger never needs more passes than the model follows
ChargerReturned == step = "charger" => handle.pc = "final_suspend"

----------------------------------------------------------------------------
\* C1: the dispatch loop resumes the acclimation coroutine only in its cooling
\* and heating cases, and only when the coroutine is suspended at the co_yield
\* of the cooling loop or of the heating loop: never at the charging yields,
\* never at its final suspend point, never before it exists.
C1_ResumeOnlyAtStepYield ==
    /\ from # "noresume" =>
          /\ step \in {"cooling", "heating"}
          /\ from \in {"yield_cooling", "yield_heating"}
    /\ step \in {"cooling", "heating"} => from # "noresume"
    /\ handle.pc # "ub"

C1_Witness ==
    /\ step = "cooling"
    /\ from = "yield_cooling"
    /\ handle.pc = "yield_charging"

\* C2: at every head of the dispatch loop once a coroutine has been created,
\* info's temperature and batteryCharge are those of the message most recently
\* yielded or returned by the coroutine that ran last.
C2_LiveReadingIsLastProduced ==
    step # "none" => SameReading(info, produced)

\* C3: when the start case finishes, info's temperature and batteryCharge are
\* those of the first message yielded by the acclimate coroutine it created.
C3_StartAdoptsFirstYield ==
    step = "start" =>
        /\ Yields(handle) = 1
        /\ info.temperature = handle.promise.temperature
        /\ info.batteryCharge = handle.promise.batteryCharge

\* C4 as stated: started on T > 20 and C > 20, the coroutine has yielded
\* min(ceil((T-20)/0.1), floor((C-20)/0.8)) cooling messages when it yields the
\* charging one; 37 for (25.0, 50.0).
C4_CoolingStepsFloor ==
    LET T == handle.arg.temperature
        C == handle.arg.batteryCharge
    IN  (/\ handle.co = "acclimate"
         /\ GT(T, TempHigh) /\ GT(C, ChargeLow)
         /\ handle.yields.charging = 1)
        => handle.yields.cooling =
              Min(CeilDiv(T.v - TempHigh, TempStep), FloorDiv(C.v - ChargeLow, DrainStep))

\* C4 amended: with K = min(ceil((T-20)/0.1), ceil((C-20)/0.8)), the coroutine
\* has yielded K cooling messages and no heating one when it yields the
\* charging message, or K + 1 when after K steps the temperature or the charge
\* is 20 in decimal and no field is below 20 (the doubles may still compare
\* above 20); for (25.0, 50.0) it is exactly 38.
C4_CoolingStepsCeil ==
    LET T == handle.arg.temperature
        C == handle.arg.batteryCharge
        K == Min(CeilDiv(T.v - TempHigh, TempStep), CeilDiv(C.v - ChargeLow, DrainStep))
        n == handle.yields.cooling
    IN  (/\ handle.co = "acclimate"
         /\ GT(T, TempHigh) /\ GT(C, ChargeLow))
        => /\ handle.yields.heating = 0
           /\ n <= K + 1
           /\ handle.yields.charging = 1 =>
                /\ n \in {K, K + 1}
                /\ n = K + 1 =>
                     /\ T.v - K * TempStep >= TempHigh
                     /\ C.v - K * DrainStep >= ChargeLow
                /\ (T.v = 25 * Scale /\ C.v = 50 * Scale) => n = 38
           /\ handle.yields.charging = 0 => handle.pc = "yield_cooling"

C4_Witness ==
    /\ handle.arg.temperature.v = 25 * Scale
    /\ handle.arg.batteryCharge.v = 50 * Scale
    /\ handle.yields = [cooling |-> 38, heating |-> 0, charging |-> 1]
    /\ handle.pc = "yield_charging"

\* C5: a cooling or heating case advances the coroutine by exactly one yield
\* from where it was suspended and copies the yielded message into info whole:
\* temperature, batteryCharge and state, the state being cooling, heating or
\* charging.
C5_ResumeOnceAndAdopt ==
    [][info.state \in {"cooling", "heating"} =>
          /\ Yields(handle') = Yields(handle) + 1
          /\ handle'.arg = handle.arg
          /\ handle'.pc \in Suspended
          /\ info' = handle'.promise
          /\ info' = handle'.info
          /\ info'.state \in {"cooling", "heating", "charging"}
          /\ step' = info.state]_vars

C5_Witness ==
    /\ step = "heating"
    /\ info = handle.promise
    /\ info.state = "heating"
    /\ handle.yields.heating >= 2

\* C6: a step of the coroutine whose message has batteryCharge > 20 and
\* temperature > 20 takes 0.1 from temperature and 0.8 from batteryCharge and
\* sets state cooling; one with batteryCharge > 20 and temperature < 18 adds
\* 0.1 to temperature, takes 0.8 from batteryCharge and sets state heating;
\* every other step leaves temperature and batteryCharge as they are and
\* changes state to charging or not at all.
C6_OneStep ==
    [][handle' # handle =>
          LET i == IF handle.pc = "none" THEN handle'.arg ELSE handle.info
              j == handle'.info
              hot == GT(i.batteryCharge, ChargeLow) /\ GT(i.temperature, TempHigh)
              cold == GT(i.batteryCharge, ChargeLow) /\ LT(i.temperature, TempLow)
          IN  /\ hot => /\ j.temperature.v = i.temperature.v - 10
                        /\ j.batteryCharge.v = i.batteryCharge.v - 80
                        /\ j.state = "cooling"
              /\ cold => /\ j.temperature.v = i.temperature.v + 10
                         /\ j.batteryCharge.v = i.batteryCharge.v - 80
                         /\ j.state = "heating"
              /\ ~hot /\ ~cold => /\ j.temperature = i.temperature
                                  /\ j.batteryCharge = i.batteryCharge
                                  /\ j.state \in {"charging", i.state}
              /\ handle'.promise = j]_vars

C6_Witness ==
    /\ handle.pc = "yield_heating"
    /\ handle.yields.heating >= 2
    /\ handle.info.temperature.v = handle.arg.temperature.v + 10 * handle.yields.heating

\* C7: the coroutine created on a message with batteryCharge <= 20 yields one
\* message, with state charging and the temperature and batteryCharge it was
\* given; resumed once more it reaches its final suspend point without another
\* yield.
C7_LowChargeYieldsOnce ==
    /\ [](LE(handle.arg.batteryCharge, ChargeLow) /\ handle.co = "acclimate" =>
             /\ handle.yields = [cooling |-> 0, heating |-> 0, charging |-> 1]
             /\ handle.promise = [handle.arg EXCEPT !.state = "charging"]
             /\ handle.pc \in Suspended \cup {"final_suspend"})
    /\ [][(/\ LE(handle.arg.batteryCharge, ChargeLow)
           /\ handle.co = "acclimate"
           /\ handle' # handle)
          => handle' = [handle EXCEPT !.pc = "final_suspend"]]_vars

C7_Witness ==
    /\ handle.arg.temperature.v = 15 * Scale
    /\ handle.arg.batteryCharge.v = 10 * Scale
    /\ handle.pc = "final_suspend"
    /\ from = "yield_else"
    /\ Yields(handle) = 1

\* C8: the charger returns without suspending, at batteryCharge >= 94.9, after
\* the least number k of passes with entry batteryCharge + 0.1 k >= 94.9, with
\* temperature = entry temperature + 0.01 k and the entry state.
C8_ChargerLeastPasses ==
    step = "charger" =>
        LET k == IF info.batteryCharge.v >= ChargeFull THEN 0
                 ELSE CeilDiv(ChargeFull - info.batteryCharge.v, ChargeStep)
        IN  /\ handle.pc = "final_suspend"
            /\ Yields(handle) = 0
            /\ GE(handle.promise.batteryCharge, ChargeFull)
            /\ handle.k = k
            /\ handle.promise.batteryCharge.v = info.batteryCharge.v + ChargeStep * k
            /\ handle.promise.temperature.v = info.temperature.v + DriftStep * k
            /\ handle.promise.state = info.state

\* C9: after init_values the state is heating iff temperature < 18 and
\* batteryCharge > 20, cooling iff temperature > 20 and batteryCharge > 20,
\* finish iff 18 <= temperature <= 20 and batteryCharge > 20, charging iff
\* batteryCharge <= 20, and nothing else.
C9_Classification ==
    step = "start" =>
        LET T == drawn.temperature.v
            C == drawn.batteryCharge.v
        IN  /\ info.state = "heating" <=> (T < 18 * Scale /\ C > 20 * Scale)
            /\ info.state = "cooling" <=> (T > 20 * Scale /\ C > 20 * Scale)
            /\ info.state = "finish" <=>
                   (18 * Scale <= T /\ T <= 20 * Scale /\ C > 20 * Scale)
            /\ info.state = "charging" <=> C <= 20 * Scale
            /\ info.state \in {"heating", "cooling", "finish", "charging"}
            /\ T \in {t * Scale : t \in AllTemps}
            /\ C \in {c * Scale : c \in AllCharges}

C9_Witness ==
    /\ step = "start"
    /\ drawn.temperature.v = 20 * Scale
    /\ drawn.batteryCharge.v = 21 * Scale
    /\ info.state = "finish"

\* C10: when init_values draws batteryCharge <= 20 the start case leaves state
\* charging and the drawn temperature and batteryCharge in info, and the next
\* case executed is the charging case, which resumes nothing: the charger
\* starts from the drawn values.
C10_LowChargeGoesToCharging ==
    /\ []((step = "start" /\ drawn.batteryCharge.v <= 20 * Scale) =>
             /\ info.state = "charging"
             /\ SameReading(info, drawn))
    /\ [][(step = "start" /\ drawn.batteryCharge.v <= 20 * Scale) =>
             /\ step' = "charging"
             /\ from' = "noresume"
             /\ charged'.batteryCharge.v >= drawn.batteryCharge.v
             /\ charged'.temperature.v - drawn.temperature.v
                   = (charged'.batteryCharge.v - drawn.batteryCharge.v) \div ChargeStep]_vars

C10_Witness ==
    /\ step = "start"
    /\ drawn.temperature.v = 15 * Scale
    /\ drawn.batteryCharge.v = 10 * Scale
    /\ info.state = "charging"
    /\ handle.pc = "yield_else"

----------------------------------------------------------------------------
\* C11 as stated: the start case that follows a finish case leaves in info the
\* temperature and batteryCharge info had in finish.
C11_StartReusesFinishValues ==
    [][step = "finish" => SameReading(info', info)]_vars

\* C11 amended: the finish case changes only the state, to start; the start
\* case that follows calls init_values, which draws both values again: at its
\* end info holds the freshly drawn whole numbers, whatever it held in finish
\* (a finish reading that is not a whole number of degrees is always replaced).
C11_StartRedraws ==
    /\ [][info.state = "finish" => info' = [info EXCEPT !.state = "start"]]_vars
    /\ [][step = "finish" =>
             /\ step' = "start"
             /\ SameReading(info', drawn')
             /\ info'.temperature \in {Exact(t * Scale) : t \in AllTemps}
             /\ info'.batteryCharge \in {Exact(c * Scale) : c \in AllCharges}
             /\ info.temperature.v % Scale # 0 => info'.temperature # info.temperature
             /\ handle'.arg = info']_vars

C11_Witness ==
    /\ step = "finish"
    /\ info.state = "start"
    /\ info.temperature.v % Scale # 0
    /\ info.batteryCharge.v \in {ChargeFull, ChargeFull + ChargeStep}

\* C12: a charging case runs a charger to its return, and leaves heating iff
\* the returned temperature t < 18, cooling iff t > 20, finish iff
\* 18 <= t <= 20, never charging, start or standby; in the heating and cooling
\* cases handle is a new acclimate coroutine created on the returned message
\* and suspended at its first yield; in the finish case, and in the cooling
\* case, info holds the returned temperature and batteryCharge.
C12_ChargingStep ==
    /\ [](step = "charging" =>
            LET t == charged.temperature IN
            /\ GE(charged.batteryCharge, ChargeFull)
            /\ charged.state = "charging"
            /\ info.state = "heating" <=> LT(t, TempLow)
            /\ info.state = "cooling" <=> GT(t, TempHigh)
            /\ info.state = "finish" <=> (GE(t, TempLow) /\ LE(t, TempHigh))
            /\ info.state \in {"heating", "cooling", "finish"}
            /\ info.state = "heating" => t.v < TempLow \/ (t.v = TempLow /\ t.r < 0)
            /\ info.state = "finish" => (TempLow <= t.v /\ t.v <= TempHigh)
            /\ info.state \in {"heating", "cooling"} =>
                  /\ handle.co = "acclimate"
                  /\ handle.arg = charged
                  /\ Yields(handle) = 1
                  /\ handle.pc = "yield_" \o info.state
            /\ info.state \in {"finish", "cooling"} => SameReading(info, charged))
    /\ [][info.state = "charging" =>
            /\ step' = "charging"
            /\ charged'.temperature.v - info.temperature.v
                  = (charged'.batteryCharge.v - info.batteryCharge.v) \div ChargeStep
            /\ charged'.batteryCharge.v >= info.batteryCharge.v
            /\ info'.state = "finish" => handle' = handle]_vars

C12_Witness ==
    /\ step = "charging"
    /\ info.state = "heating"
    /\ handle.arg = charged
    /\ handle.pc = "yield_heating"
    /\ charged.temperature.v < TempLow

\* C13: after a charging case that ends in cooling, info's temperature and
\* batteryCharge are the charger's returned ones and not those of the new
\* coroutine's first yield; after one that ends in heating they are those of
\* the new coroutine's first yield: returned temperature + 0.1, returned
\* batteryCharge - 0.8.
C13_PostChargeAsymmetry ==
    step = "charging" =>
        /\ info.state = "cooling" =>
              /\ SameReading(info, charged)
              /\ handle.promise.temperature.v = info.temperature.v - TempStep
              /\ handle.promise.batteryCharge.v = info.batteryCharge.v - DrainStep
              /\ handle.promise.state = "cooling"
        /\ info.state = "heating" =>
              /\ info = handle.promise
              /\ info.temperature.v = charged.temperature.v + TempStep
              /\ info.batteryCharge.v = charged.batteryCharge.v - DrainStep

C13_Witness ==
    /\ step = "charging"
    /\ info.state = "cooling"
    /\ SameReading(info, charged)
    /\ handle.pc = "yield_cooling"
    /\ ~SameReading(info, handle.promise)

\* C14: whenever info's state is charging, set by init_values or copied from a
\* message the acclimate coroutine yielded, its batteryCharge <= 20 or its
\* temperature is within [18, 20].
C14_ChargingMeansLowOrInBand ==
    info.state = "charging" =>
        /\ step \in {"start", "cooling", "heating"}
        /\ \/ LE(info.batteryCharge, ChargeLow)
           \/ GE(info.temperature, TempLow) /\ LE(info.temperature, TempHigh)
        /\ \/ info.batteryCharge.v <= ChargeLow
           \/ TempLow <= info.temperature.v /\ info.temperature.v <= TempHigh

C14_Witness ==
    /\ info.state = "charging"
    /\ step = "heating"
    /\ GT(info.batteryCharge, ChargeLow)
    /\ info.temperature.v = TempLow

\* C15: once init_values has drawn, the batteryCharge of info and of every
\* message yielded or returned by a coroutine is within [0, 100].
C15_ChargeInRange ==
    step # "none" =>
        \A m \in {info, handle.promise, handle.info, handle.arg, produced} \cup
                 (IF step = "charging" THEN {charged} ELSE {}) :
            0 <= m.batteryCharge.v /\ m.batteryCharge.v <= ChargeMod * Scale

C15_Witness ==
    /\ step = "charging"
    /\ charged.batteryCharge.v = ChargeFull + ChargeStep
    /\ drawn.batteryCharge.v = 10 * Scale

\* C16: at every head of the dispatch loop info's state is start, cooling,
\* heating, charging or finish, never standby, and a case of the switch can
\* run: the loop never ends.
C16_NeverStandby ==
    /\ info.state \in {"start", "cooling", "heating", "charging", "finish"}
    /\ info.state # "standby"
    /\ ENABLED Next

C16_Witness ==
    /\ step = "finish"
    /\ info.state = "start"
    /\ handle.pc = "yield_charging"
    /\ handle.yields.cooling >= 1

\* C18: whenever info's state is finish, 18 <= temperature <= 20 and
\* batteryCharge > 20.
C18_FinishInBand ==
    info.state = "finish" =>
        /\ GE(info.temperature, TempLow) /\ LE(info.temperature, TempHigh)
        /\ TempLow <= info.temperature.v /\ info.temperature.v <= TempHigh
        /\ GT(info.batteryCharge, ChargeLow)
        /\ info.batteryCharge.v > ChargeLow

C18_Witness ==
    /\ info.state = "finish"
    /\ step = "charging"
    /\ info.temperature.v = TempHigh
    /\ info.batteryCharge.v >= ChargeFull

\* C19: an acclimate coroutine resumed to its final suspend point yields
\* cooling messages then one charging message, or heating messages then one
\* charging message, or one charging message alone: never both cooling and
\* heating, exactly one charging message and that one last, and at most one
\* step more than the charge above 20 pays for at 0.8 a step.
C19_YieldShape ==
    /\ [](handle.co = "acclimate" =>
            LET y == handle.yields
                C == handle.arg.batteryCharge.v
                paid == IF C > ChargeLow THEN CeilDiv(C - ChargeLow, DrainStep) ELSE 0
            IN  /\ y.cooling = 0 \/ y.heating = 0
                /\ y.cooling + y.heating <= paid + 1
                /\ handle.pc = "yield_cooling" =>
                      y.cooling >= 1 /\ y.charging = 0 /\ handle.promise.state = "cooling"
                /\ handle.pc = "yield_heating" =>
                      y.heating >= 1 /\ y.charging = 0 /\ handle.promise.state = "heating"
                /\ handle.pc \in {"yield_charging", "yield_else", "final_suspend"} =>
                      y.charging = 1 /\ handle.promise.state = "charging"
                /\ handle.pc \in Suspended \cup {"final_suspend"})
    /\ [][(handle.co = "acclimate" /\ handle'.arg = handle.arg /\ handle' # handle) =>
            /\ handle.yields.charging = 0 =>
                  /\ Yields(handle') = Yields(handle) + 1
                  /\ handle'.promise.state \in {handle.promise.state, "charging"}
            /\ handle.yields.charging = 1 =>
                  /\ handle'.yields = handle.yields
                  /\ handle'.pc = "final_suspend"]_vars

C19_Witness ==
    /\ handle.pc = "final_suspend"
    /\ handle.yields.heating >= 2
    /\ handle.yields.cooling = 0
    /\ handle.yields.charging = 1
    /\ from = "yield_charging"

\* C17: from every drawn reading the loop reaches state finish, and so reaches
\* it again and again, each time followed by start: acclimation and charging
\* cannot alternate for ever.
C17_FinishInfinitelyOften ==
    /\ []<>(info.state = "finish")
    /\ []<>(info.state = "start")
    /\ (step = "start") ~> (info.state = "finish")
    /\ (info.state = "finish") ~> (step = "start")

C17_Witness ==
    /\ info.state = "finish"
    /\ step = "charging"
    /\ drawn.temperature.v = 50 * Scale
    /\ handle.yields.cooling >= 1

====
